---- MODULE Spec2Model ----
(***************************************************************************)
(* Participant lifecycle of the way-back-home dashboard backend            *)
(* (routes/participants.py) and the coordinate -> biome mapping of level 1 *)
(* (generate_evidence.py, setup_star_catalog.py).                          *)
(*                                                                         *)
(* Every route handler is an async function: each `await` on the database  *)
(* or the storage module is a point where other requests run.  A handler   *)
(* is therefore modelled as one action per awaited call, the code between  *)
(* two awaits being part of the step of the first.                         *)
(*                                                                         *)
(* A Python dict value is modelled as None (<<>>) or Some(v) (<<v>>); a    *)
(* key that is absent from a participant document reads as None, exactly   *)
(* as dict.get and the ParticipantResponse model read it.                  *)
(***************************************************************************)
EXTENDS Integers, Sequences, FiniteSets, TLC

VARIABLES
    events,        \* event documents, by event code
    participants,  \* participant documents, by participant_id
    storage,       \* paths of the objects held by the storage collaborator
    clock,         \* datetime.now(): number of timestamps handed out so far
    calls,         \* the requests: handler, position, locals, response
    bx, by,        \* coordinates handed to get_biome
    biome          \* the label get_biome returned for (bx, by), None before

vars == <<events, participants, storage, clock, calls, bx, by, biome>>

lifecycleVars == <<events, participants, storage, clock, calls>>
biomeVars == <<bx, by, biome>>

None == <<>>
Some(v) == <<v>>

----------------------------------------------------------------------------
(* Bounds of the model *)

\* number of requests of one behaviour (all of them may run concurrently)
MaxCalls == 2
\* get_biome is applied to every (x, y) of 0..BiomeCoordMax squared
BiomeCoordMax == 100

Calls == 1..MaxCalls

(* Inputs *)
EventCodes == {"E1", "E2", "E3"}
Usernames == {"alice", "bob"}
\* the values secrets.token_hex(4) is let to return
Ids == {"p1", "p2"}
ProjectIds == {None}

----------------------------------------------------------------------------
(* config.py *)
MAP_WIDTH == 100
MAP_HEIGHT == 100

\* the margin of random.randint(10, MAP_WIDTH - 10)
StartMargin == 10

\* random.randint(a, b): any integer of a..b; the model lets it return the
\* two ends of the range
randint(a, b) == {v \in {a, b} : a <= v /\ v <= b}

----------------------------------------------------------------------------
(* Participant documents *)

LevelFields == {"level_0_complete", "level_1_complete", "level_2_complete",
                "level_3_complete", "level_4_complete", "level_5_complete"}

\* the fields of ParticipantUpdate
UpdateFields == LevelFields \cup {"completion_percentage"}

\* the keys of the dict init_participant builds
InitFields == {"participant_id", "username", "event_code", "project_id",
               "x", "y", "location_confirmed", "portrait_url", "icon_url",
               "suit_color", "appearance", "registered_at", "created_at",
               "active"}

ParticipantFields == InitFields \cup {"evidence_urls"} \cup UpdateFields

\* a dict as a document: the keys it lacks read as None
Document(d) == [k \in ParticipantFields |-> IF k \in DOMAIN d THEN d[k] ELSE None]

----------------------------------------------------------------------------
(* database.py: the persistence layer *)

get_event(event_code) ==
    IF event_code \in DOMAIN events THEN Some(events[event_code]) ELSE None

\* event.get(key, default)
EventGet(event, key, default) ==
    IF key \in DOMAIN event THEN event[key] ELSE default

get_participant(participant_id) ==
    IF participant_id \in DOMAIN participants
    THEN Some(participants[participant_id]) ELSE None

check_username_exists(event_code, username) ==
    \E p \in DOMAIN participants :
        /\ participants[p].event_code = Some(event_code)
        /\ participants[p].username = Some(username)

\* create_participant as a plain insert, without the uniqueness guard
create_participant_insert(participant) ==
    LET e == participant.event_code[1]
        id == participant.participant_id[1]
    IN  /\ participants' = (id :> participant) @@ participants
        /\ events' = [events EXCEPT ![e] =
               ("participant_count" :> (EventGet(@, "participant_count", 0) + 1)) @@ @]

\* create_if_username_free: one atomic step that stores the document under
\* its participant_id and increments the event's participant_count, or
\* changes nothing when the (event_code, username) pair is taken.  The
\* answer (Ok or Conflict) is not read by init_participant.
create_participant(participant) ==
    LET e == participant.event_code[1]
        u == participant.username[1]
        id == participant.participant_id[1]
    IN  IF check_username_exists(e, u)
        THEN UNCHANGED <<participants, events>>
        ELSE /\ participants' = (id :> participant) @@ participants
             /\ events' = [events EXCEPT ![e] =
                    ("participant_count" :> (EventGet(@, "participant_count", 0) + 1)) @@ @]

\* an update that keeps the fields of the creation dict and replaces
\* everything added since by the fields it is given
merge_update_replace(doc, updates) ==
    [k \in DOMAIN doc |->
        IF k \in DOMAIN updates /\ updates[k] # None THEN updates[k]
        ELSE IF k \in InitFields THEN doc[k]
        ELSE None]

\* merge_update: the non-null fields of `updates` replace the stored ones
merge_update(doc, updates) ==
    [k \in DOMAIN doc |->
        IF k \in DOMAIN updates /\ updates[k] # None THEN updates[k] ELSE doc[k]]

update_participant(participant_id, updates) ==
    IF participant_id \in DOMAIN participants
    THEN participants' = [participants EXCEPT
                            ![participant_id] = merge_update(@, updates)]
    ELSE UNCHANGED participants

----------------------------------------------------------------------------
(* Requests *)

IdleCall == [op |-> "idle", pc |-> "idle", data |-> None, loc |-> None,
             status |-> 0, body |-> None]

\* a request can start in slot c when the slots before it are in use
CanStart(c) ==
    /\ calls[c].pc = "idle"
    /\ \A d \in Calls : d < c => calls[d].pc # "idle"

Start(c, op, pc, data) ==
    calls' = [calls EXCEPT ![c] = [IdleCall EXCEPT !.op = op, !.pc = pc, !.data = data]]

Goto(c, pc, loc) ==
    calls' = [calls EXCEPT ![c].pc = pc, ![c].loc = loc]

\* the handler returns, or raises HTTPException(status_code, detail); its
\* locals are gone
Respond(c, status, body) ==
    calls' = [calls EXCEPT ![c].pc = "done", ![c].loc = None,
                           ![c].status = status, ![c].body = body]

At(c, op, pc) == calls[c].op = op /\ calls[c].pc = pc

----------------------------------------------------------------------------
(* POST /participants/init *)

StartInit(c) ==
    /\ CanStart(c)
    /\ \E e \in EventCodes, u \in Usernames, proj \in ProjectIds :
          Start(c, "init", "get_event",
                [event_code |-> e, username |-> u, project_id |-> proj])
    /\ UNCHANGED <<events, participants, storage, clock, biomeVars>>

\* the capacity gate with > for >=
EventIsFull_strict(event) ==
    EventGet(event, "participant_count", 0) > EventGet(event, "max_participants", 500)

\* event.get("participant_count", 0) >= event.get("max_participants", 500)
EventIsFull(event) ==
    EventGet(event, "participant_count", 0) >= EventGet(event, "max_participants", 500)

\* the gates with the username looked up before the event is examined
InitGetEvent_usernameFirst(c) ==
    /\ At(c, "init", "get_event")
    /\ LET event == get_event(calls[c].data.event_code)
       IN  IF check_username_exists(calls[c].data.event_code, calls[c].data.username)
           THEN Respond(c, 409, "Username already taken")
           ELSE IF event = None
           THEN Respond(c, 404, "Event not found")
           ELSE IF ~EventGet(event[1], "active", TRUE)
           THEN Respond(c, 410, "Event has ended")
           ELSE IF EventIsFull(event[1])
           THEN Respond(c, 409, "Event is full")
           ELSE Goto(c, "check_username", None)
    /\ UNCHANGED <<events, participants, storage, clock, biomeVars>>

\* lines 56-65: the event is read and the three admission gates are applied
InitGetEvent(c) ==
    /\ At(c, "init", "get_event")
    /\ LET event == get_event(calls[c].data.event_code)
       IN  IF event = None
           THEN Respond(c, 404, "Event not found")
           ELSE IF ~EventGet(event[1], "active", TRUE)
           THEN Respond(c, 410, "Event has ended")
           ELSE IF EventIsFull(event[1])
           THEN Respond(c, 409, "Event is full")
           ELSE Goto(c, "check_username", None)
    /\ UNCHANGED <<events, participants, storage, clock, biomeVars>>

\* lines 76-92: the participant dict
\* the dict with placeholder avatar URLs in place of None
NewParticipant_withAvatar(participant_id, data, starting_x, starting_y, now) ==
    Document([participant_id |-> Some(participant_id),
              username |-> Some(data.username),
              event_code |-> Some(data.event_code),
              project_id |-> data.project_id,
              x |-> Some(starting_x),
              y |-> Some(starting_y),
              location_confirmed |-> Some(FALSE),
              portrait_url |-> Some("https://storage/default.png"),
              icon_url |-> Some("https://storage/default.png"),
              suit_color |-> None,
              appearance |-> None,
              registered_at |-> None,
              created_at |-> Some(now),
              active |-> Some(TRUE)])

NewParticipant(participant_id, data, starting_x, starting_y, now) ==
    Document([participant_id |-> Some(participant_id),
              username |-> Some(data.username),
              event_code |-> Some(data.event_code),
              project_id |-> data.project_id,
              x |-> Some(starting_x),
              y |-> Some(starting_y),
              location_confirmed |-> Some(FALSE),
              portrait_url |-> None,
              icon_url |-> None,
              suit_color |-> None,
              appearance |-> None,
              registered_at |-> None,
              created_at |-> Some(now),
              active |-> Some(TRUE)])

\* the username check with the event's place reserved before the lookup
InitCheckUsername_countFirst(c) ==
    /\ At(c, "init", "check_username")
    /\ events' = [events EXCEPT ![calls[c].data.event_code] =
          ("participant_count" :> (EventGet(@, "participant_count", 0) + 1)) @@ @]
    /\ IF check_username_exists(calls[c].data.event_code, calls[c].data.username)
       THEN /\ Respond(c, 409, "Username already taken")
            /\ UNCHANGED clock
       ELSE /\ \E participant_id \in Ids,
                  starting_x \in randint(StartMargin, MAP_WIDTH - StartMargin),
                  starting_y \in randint(StartMargin, MAP_HEIGHT - StartMargin) :
                    Goto(c, "create",
                         NewParticipant(participant_id, calls[c].data,
                                        starting_x, starting_y, clock))
            /\ clock' = clock + 1
    /\ UNCHANGED <<participants, storage, biomeVars>>

\* lines 68-92: the username is looked up; when it is free the id, the
\* coordinates and the creation time are drawn and the dict is built
InitCheckUsername(c) ==
    /\ At(c, "init", "check_username")
    /\ IF check_username_exists(calls[c].data.event_code, calls[c].data.username)
       THEN /\ Respond(c, 409, "Username already taken")
            /\ UNCHANGED clock
       ELSE /\ \E participant_id \in Ids,
                  starting_x \in randint(StartMargin, MAP_WIDTH - StartMargin),
                  starting_y \in randint(StartMargin, MAP_HEIGHT - StartMargin) :
                    Goto(c, "create",
                         NewParticipant(participant_id, calls[c].data,
                                        starting_x, starting_y, clock))
            /\ clock' = clock + 1
    /\ UNCHANGED <<events, participants, storage, biomeVars>>

\* ParticipantInitResponse
InitResponse(participant) ==
    [participant_id |-> participant.participant_id[1],
     username |-> participant.username[1],
     event_code |-> participant.event_code[1],
     starting_x |-> participant.x[1],
     starting_y |-> participant.y[1]]

\* lines 94-102: the document is handed to the store and the response built
InitCreate(c) ==
    /\ At(c, "init", "create")
    /\ create_participant(calls[c].loc)
    /\ Respond(c, 200, InitResponse(calls[c].loc))
    /\ UNCHANGED <<storage, clock, biomeVars>>

init_participant(c) ==
    \/ InitGetEvent(c)
    \/ InitCheckUsername(c)
    \/ InitCreate(c)

----------------------------------------------------------------------------
(* storage.py: the storage collaborator *)

\* get_avatar_url(path)
get_avatar_url(path) == "https://storage/" \o path

\* upload_avatar_image(path, data, content_type) when it succeeds: the object
\* at `path` is written, replacing the one that was there
upload_avatar_image(path) == storage' = storage \cup {path}

\* a content type "type/subtype" is the pair <<type, subtype>>;
\* `word in content_type` holds when word is one of the two parts
InContentType(word, content_type) ==
    \E i \in 1..Len(content_type) : content_type[i] = word

PNG == <<"image", "png">>
JPEG == <<"image", "jpeg">>
GIF == <<"image", "gif">>
MP4 == <<"video", "mp4">>
VIDEO_PNG == <<"video", "png">>

\* ParticipantResponse: the fields of the response model
ResponseFields == {"participant_id", "username", "event_code", "x", "y",
                   "location_confirmed", "portrait_url", "icon_url",
                   "suit_color", "registered_at", "active", "evidence_urls"}
                  \cup LevelFields

ParticipantResponse(doc) == [k \in ResponseFields |-> doc[k]]

\* Python truthiness of an Optional[str]
Truthy(v) == v # None /\ v[1] # ""

----------------------------------------------------------------------------
(* GET /participants/{participant_id} *)

StartFetch(c) ==
    /\ CanStart(c)
    /\ \E id \in Ids : Start(c, "fetch", "get", [participant_id |-> id])
    /\ UNCHANGED <<events, participants, storage, clock, biomeVars>>

\* lines 41-45
get_participant_info(c) ==
    /\ At(c, "fetch", "get")
    /\ LET participant == get_participant(calls[c].data.participant_id)
       IN  IF participant = None
           THEN Respond(c, 404, "Participant not found")
           ELSE Respond(c, 200, ParticipantResponse(participant[1]))
    /\ UNCHANGED <<events, participants, storage, clock, biomeVars>>

----------------------------------------------------------------------------
(* POST /participants/{participant_id}/avatar *)

AvatarInputs == {<<PNG, JPEG>>, <<GIF, PNG>>, <<PNG, GIF>>}

StartAvatar(c) ==
    /\ CanStart(c)
    /\ \E id \in Ids, files \in AvatarInputs :
          Start(c, "avatar", "get",
                [participant_id |-> id, portrait |-> files[1], icon |-> files[2]])
    /\ UNCHANGED <<events, participants, storage, clock, biomeVars>>

\* a type check that lets every image/* type through
InvalidAvatarType_anyImage(content_type) == content_type[1] # "image"

\* file.content_type not in ["image/png", "image/jpeg"]
InvalidAvatarType(content_type) == content_type \notin {PNG, JPEG}

AvatarPath(event_code, participant_id, name) ==
    "avatars/" \o event_code \o "/" \o participant_id \o "/" \o name

\* lines 117-130
AvatarGet(c) ==
    /\ At(c, "avatar", "get")
    /\ LET participant == get_participant(calls[c].data.participant_id)
       IN  IF participant = None
           THEN Respond(c, 404, "Participant not found")
           ELSE IF InvalidAvatarType(calls[c].data.portrait)
           THEN Respond(c, 400, "Invalid portrait file type. Must be PNG or JPEG.")
           ELSE IF InvalidAvatarType(calls[c].data.icon)
           THEN Respond(c, 400, "Invalid icon file type. Must be PNG or JPEG.")
           ELSE Goto(c, "upload_portrait",
                     [event_code |-> participant[1].event_code[1]])
    /\ UNCHANGED <<events, participants, storage, clock, biomeVars>>

\* the portrait upload with its URL merged into the record at once
AvatarUploadPortrait_eager(c) ==
    /\ At(c, "avatar", "upload_portrait")
    /\ LET portrait_path == AvatarPath(calls[c].loc.event_code,
                                       calls[c].data.participant_id, "portrait.png")
       IN  \/ /\ upload_avatar_image(portrait_path)
              /\ update_participant(calls[c].data.participant_id,
                                    [portrait_url |-> Some(get_avatar_url(portrait_path))])
              /\ Goto(c, "upload_icon",
                      [event_code |-> calls[c].loc.event_code,
                       portrait_url |-> get_avatar_url(portrait_path)])
           \/ /\ Respond(c, 500, "Internal Server Error")
              /\ UNCHANGED <<storage, participants>>
    /\ UNCHANGED <<events, clock, biomeVars>>

\* lines 132-135; the upload may raise, which ends the request
AvatarUploadPortrait(c) ==
    /\ At(c, "avatar", "upload_portrait")
    /\ LET portrait_path == AvatarPath(calls[c].loc.event_code,
                                       calls[c].data.participant_id, "portrait.png")
       IN  \/ /\ upload_avatar_image(portrait_path)
              /\ Goto(c, "upload_icon",
                      [event_code |-> calls[c].loc.event_code,
                       portrait_url |-> get_avatar_url(portrait_path)])
           \/ /\ Respond(c, 500, "Internal Server Error")
              /\ UNCHANGED storage
    /\ UNCHANGED <<events, participants, clock, biomeVars>>

\* the icon upload under an object name of its own for every request
AvatarUploadIcon_uniqueName(c) ==
    /\ At(c, "avatar", "upload_icon")
    /\ LET icon_path == AvatarPath(calls[c].loc.event_code,
                                   calls[c].data.participant_id,
                                   "icon-" \o ToString(c) \o ".png")
       IN  \/ /\ upload_avatar_image(icon_path)
              /\ Goto(c, "update",
                      [portrait_url |-> calls[c].loc.portrait_url,
                       icon_url |-> get_avatar_url(icon_path)])
           \/ /\ Respond(c, 500, "Internal Server Error")
              /\ UNCHANGED storage
    /\ UNCHANGED <<events, participants, clock, biomeVars>>

\* lines 137-140
AvatarUploadIcon(c) ==
    /\ At(c, "avatar", "upload_icon")
    /\ LET icon_path == AvatarPath(calls[c].loc.event_code,
                                   calls[c].data.participant_id, "icon.png")
       IN  \/ /\ upload_avatar_image(icon_path)
              /\ Goto(c, "update",
                      [portrait_url |-> calls[c].loc.portrait_url,
                       icon_url |-> get_avatar_url(icon_path)])
           \/ /\ Respond(c, 500, "Internal Server Error")
              /\ UNCHANGED storage
    /\ UNCHANGED <<events, participants, clock, biomeVars>>

\* the avatar write with the portrait URL alone
AvatarUpdate_portraitOnly(c) ==
    /\ At(c, "avatar", "update")
    /\ update_participant(calls[c].data.participant_id,
                          [portrait_url |-> Some(calls[c].loc.portrait_url)])
    /\ Respond(c, 200, [status |-> "success",
                        portrait_url |-> calls[c].loc.portrait_url,
                        icon_url |-> calls[c].loc.icon_url])
    /\ UNCHANGED <<events, storage, clock, biomeVars>>

\* lines 143-152
AvatarUpdate(c) ==
    /\ At(c, "avatar", "update")
    /\ update_participant(calls[c].data.participant_id,
                          [portrait_url |-> Some(calls[c].loc.portrait_url),
                           icon_url |-> Some(calls[c].loc.icon_url)])
    /\ Respond(c, 200, [status |-> "success",
                        portrait_url |-> calls[c].loc.portrait_url,
                        icon_url |-> calls[c].loc.icon_url])
    /\ UNCHANGED <<events, storage, clock, biomeVars>>

upload_avatar(c) ==
    \/ AvatarGet(c)
    \/ AvatarUploadPortrait(c)
    \/ AvatarUploadIcon(c)
    \/ AvatarUpdate(c)

----------------------------------------------------------------------------
(* POST /participants/register *)

RegisterInputs == {<<None, None>>, <<Some("red"), Some("tall")>>, <<Some(""), None>>}

StartRegister(c) ==
    /\ CanStart(c)
    /\ \E id \in Ids, d \in RegisterInputs :
          Start(c, "register", "get",
                [participant_id |-> id, suit_color |-> d[1], appearance |-> d[2]])
    /\ UNCHANGED <<events, participants, storage, clock, biomeVars>>

\* the avatar gate with both `not` dropped
AvatarMissing_inverted(participant) ==
    Truthy(participant.portrait_url) \/ Truthy(participant.icon_url)

\* not participant.get("portrait_url") or not participant.get("icon_url")
AvatarMissing(participant) ==
    ~Truthy(participant.portrait_url) \/ ~Truthy(participant.icon_url)

\* the updates dict without the registration time
RegisterUpdates_unstamped(data, now) ==
    [k \in {"active"}
          \cup (IF Truthy(data.suit_color) THEN {"suit_color"} ELSE {})
          \cup (IF Truthy(data.appearance) THEN {"appearance"} ELSE {}) |->
        CASE k = "active" -> Some(TRUE)
          [] k = "suit_color" -> data.suit_color
          [] k = "appearance" -> data.appearance]

\* the updates dict with a default colour for a suit_color not supplied
RegisterUpdates_defaultColor(data, now) ==
    [k \in {"registered_at", "active", "suit_color"}
          \cup (IF Truthy(data.appearance) THEN {"appearance"} ELSE {}) |->
        CASE k = "registered_at" -> Some(now)
          [] k = "active" -> Some(TRUE)
          [] k = "suit_color" -> IF Truthy(data.suit_color) THEN data.suit_color
                                 ELSE Some("white")
          [] k = "appearance" -> data.appearance]

\* lines 175-183: the updates dict
RegisterUpdates(data, now) ==
    [k \in {"registered_at", "active"}
          \cup (IF Truthy(data.suit_color) THEN {"suit_color"} ELSE {})
          \cup (IF Truthy(data.appearance) THEN {"appearance"} ELSE {}) |->
        CASE k = "registered_at" -> Some(now)
          [] k = "active" -> Some(TRUE)
          [] k = "suit_color" -> data.suit_color
          [] k = "appearance" -> data.appearance]

\* lines 163-183
RegisterGet(c) ==
    /\ At(c, "register", "get")
    /\ LET participant == get_participant(calls[c].data.participant_id)
       IN  IF participant = None
           THEN /\ Respond(c, 404, "Participant not found")
                /\ UNCHANGED clock
           ELSE IF AvatarMissing(participant[1])
           THEN /\ Respond(c, 400, "Avatar must be uploaded before registration")
                /\ UNCHANGED clock
           ELSE /\ Goto(c, "update", RegisterUpdates(calls[c].data, clock))
                /\ clock' = clock + 1
    /\ UNCHANGED <<events, participants, storage, biomeVars>>

\* line 185
RegisterUpdate(c) ==
    /\ At(c, "register", "update")
    /\ update_participant(calls[c].data.participant_id, calls[c].loc)
    /\ Goto(c, "get_updated", calls[c].loc)
    /\ UNCHANGED <<events, storage, clock, biomeVars>>

\* lines 188-189
RegisterReturn(c) ==
    /\ At(c, "register", "get_updated")
    /\ LET updated == get_participant(calls[c].data.participant_id)
       IN  IF updated = None
           THEN Respond(c, 500, "Internal Server Error")
           ELSE Respond(c, 200, ParticipantResponse(updated[1]))
    /\ UNCHANGED <<events, participants, storage, clock, biomeVars>>

register_participant(c) ==
    \/ RegisterGet(c)
    \/ RegisterUpdate(c)
    \/ RegisterReturn(c)

----------------------------------------------------------------------------
(* POST /participants/{participant_id}/evidence *)

EvidenceInputs == {<<PNG, JPEG, MP4>>, <<VIDEO_PNG, PNG, MP4>>}

\* lines 213-217: (filename, url_key) of the three files, in upload order
evidence_files == <<<<"soil_sample", "soil">>, <<"star_field", "stars">>,
                    <<"flora_recording", "flora">>>>

\* the extension rules with the png test before the video test
EvidenceExt_pngFirst(content_type) ==
    IF InContentType("png", content_type) THEN "png"
    ELSE IF InContentType("video", content_type) THEN "mp4"
    ELSE "jpg"

\* lines 223-228
EvidenceExt(content_type) ==
    IF InContentType("video", content_type) THEN "mp4"
    ELSE IF InContentType("png", content_type) THEN "png"
    ELSE "jpg"

EvidencePath(event_code, participant_id, filename, ext) ==
    "evidence/" \o event_code \o "/" \o participant_id \o "/" \o filename \o "." \o ext

StartEvidence(c) ==
    /\ CanStart(c)
    /\ \E id \in Ids, files \in EvidenceInputs :
          Start(c, "evidence", "get", [participant_id |-> id, files |-> files])
    /\ UNCHANGED <<events, participants, storage, clock, biomeVars>>

NoUrls == [k \in {} |-> None]

\* the evidence upload refused until the avatar is there
EvidenceGet_gated(c) ==
    /\ At(c, "evidence", "get")
    /\ LET participant == get_participant(calls[c].data.participant_id)
       IN  IF participant = None
           THEN Respond(c, 404, "Participant not found")
           ELSE IF AvatarMissing(participant[1])
           THEN Respond(c, 400, "Avatar must be uploaded before registration")
           ELSE Goto(c, "upload", [event_code |-> participant[1].event_code[1],
                                   urls |-> NoUrls, i |-> 1])
    /\ UNCHANGED <<events, participants, storage, clock, biomeVars>>

\* lines 205-217
EvidenceGet(c) ==
    /\ At(c, "evidence", "get")
    /\ LET participant == get_participant(calls[c].data.participant_id)
       IN  IF participant = None
           THEN Respond(c, 404, "Participant not found")
           ELSE Goto(c, "upload", [event_code |-> participant[1].event_code[1],
                                   urls |-> NoUrls, i |-> 1])
    /\ UNCHANGED <<events, participants, storage, clock, biomeVars>>

\* lines 219-232: one turn of the loop; the upload may raise
EvidenceUpload(c) ==
    /\ At(c, "evidence", "upload")
    /\ LET i == calls[c].loc.i
           ext == EvidenceExt(calls[c].data.files[i])
           path == EvidencePath(calls[c].loc.event_code,
                                calls[c].data.participant_id,
                                evidence_files[i][1], ext)
           urls == (evidence_files[i][2] :> get_avatar_url(path)) @@ calls[c].loc.urls
       IN  \/ /\ upload_avatar_image(path)
              /\ Goto(c, IF i = Len(evidence_files) THEN "update" ELSE "upload",
                      [event_code |-> calls[c].loc.event_code,
                       urls |-> urls, i |-> i + 1])
           \/ /\ Respond(c, 500, "Internal Server Error")
              /\ UNCHANGED storage
    /\ UNCHANGED <<events, participants, clock, biomeVars>>

\* lines 235-242
EvidenceUpdate(c) ==
    /\ At(c, "evidence", "update")
    /\ update_participant(calls[c].data.participant_id,
                          [evidence_urls |-> Some(calls[c].loc.urls)])
    /\ Respond(c, 200, [status |-> "success", evidence_urls |-> calls[c].loc.urls])
    /\ UNCHANGED <<events, storage, clock, biomeVars>>

upload_evidence(c) ==
    \/ EvidenceGet(c)
    \/ EvidenceUpload(c)
    \/ EvidenceUpdate(c)

----------------------------------------------------------------------------
(* PATCH /participants/{participant_id}/location *)

LocationInputs == {<<20, 80>>, <<150, -5>>}

StartLocation(c) ==
    /\ CanStart(c)
    /\ \E id \in Ids, xy \in LocationInputs :
          Start(c, "location", "get", [participant_id |-> id, x |-> xy[1], y |-> xy[2]])
    /\ UNCHANGED <<events, participants, storage, clock, biomeVars>>

\* the location update without the lookup of the participant
LocationGet_noCheck(c) ==
    /\ At(c, "location", "get")
    /\ Goto(c, "update", None)
    /\ UNCHANGED <<events, participants, storage, clock, biomeVars>>

\* lines 252-254
LocationGet(c) ==
    /\ At(c, "location", "get")
    /\ IF get_participant(calls[c].data.participant_id) = None
       THEN Respond(c, 404, "Participant not found")
       ELSE Goto(c, "update", None)
    /\ UNCHANGED <<events, participants, storage, clock, biomeVars>>

\* lines 256-262
LocationUpdate(c) ==
    /\ At(c, "location", "update")
    /\ update_participant(calls[c].data.participant_id,
                          [x |-> Some(calls[c].data.x),
                           y |-> Some(calls[c].data.y),
                           location_confirmed |-> Some(TRUE)])
    /\ Respond(c, 200, [status |-> "success", x |-> calls[c].data.x,
                        y |-> calls[c].data.y, location_confirmed |-> TRUE])
    /\ UNCHANGED <<events, storage, clock, biomeVars>>

confirm_location(c) ==
    \/ LocationGet(c)
    \/ LocationUpdate(c)

----------------------------------------------------------------------------
(* PATCH /participants/{participant_id} *)

\* ParticipantUpdate keeping the keys of the body it does not declare
ParticipantUpdate_extraAllowed(d) ==
    [k \in UpdateFields \cup DOMAIN d |-> IF k \in DOMAIN d THEN d[k] ELSE None]

\* ParticipantUpdate: every field is Optional and defaults to None; keys of
\* the body that the model does not declare are ignored
ParticipantUpdate(d) == [k \in UpdateFields |-> IF k \in DOMAIN d THEN d[k] ELSE None]

OverridePayloads ==
    {ParticipantUpdate(NoUrls),
     ParticipantUpdate([level_2_complete |-> Some(TRUE)]),
     ParticipantUpdate([level_2_complete |-> Some(TRUE),
                        username |-> Some("mallory"),
                        event_code |-> Some("E2")]),
     ParticipantUpdate([level_0_complete |-> Some(FALSE),
                        completion_percentage |-> Some(40)])}

StartOverride(c) ==
    /\ CanStart(c)
    /\ \E id \in Ids, updates \in OverridePayloads :
          Start(c, "override", "get", [participant_id |-> id, updates |-> updates])
    /\ UNCHANGED <<events, participants, storage, clock, biomeVars>>

\* the filter of line 278 as `if v`: false and zero values are dropped too
UpdateData_truthy(updates) ==
    [k \in {f \in DOMAIN updates :
                /\ updates[f] # None
                /\ IF f = "completion_percentage"
                   THEN updates[f][1] # 0 ELSE updates[f][1]} |-> updates[k]]

\* line 278 without the filter
UpdateData_unfiltered(updates) == updates

\* line 278: {k: v for k, v in updates.dict().items() if v is not None}
UpdateData(updates) ==
    [k \in {f \in DOMAIN updates : updates[f] # None} |-> updates[k]]

\* lines 273-281
OverrideGet(c) ==
    /\ At(c, "override", "get")
    /\ LET participant == get_participant(calls[c].data.participant_id)
           update_data == UpdateData(calls[c].data.updates)
       IN  IF participant = None
           THEN Respond(c, 404, "Participant not found")
           ELSE IF DOMAIN update_data = {}
           THEN Respond(c, 200, ParticipantResponse(participant[1]))
           ELSE Goto(c, "update", update_data)
    /\ UNCHANGED <<events, participants, storage, clock, biomeVars>>

\* line 283
OverrideUpdate(c) ==
    /\ At(c, "override", "update")
    /\ update_participant(calls[c].data.participant_id, calls[c].loc)
    /\ Goto(c, "get_updated", calls[c].loc)
    /\ UNCHANGED <<events, storage, clock, biomeVars>>

\* lines 286-287
OverrideReturn(c) ==
    /\ At(c, "override", "get_updated")
    /\ LET updated == get_participant(calls[c].data.participant_id)
       IN  IF updated = None
           THEN Respond(c, 500, "Internal Server Error")
           ELSE Respond(c, 200, ParticipantResponse(updated[1]))
    /\ UNCHANGED <<events, participants, storage, clock, biomeVars>>

update_participant_details(c) ==
    \/ OverrideGet(c)
    \/ OverrideUpdate(c)
    \/ OverrideReturn(c)

----------------------------------------------------------------------------
(* generate_evidence.py: BIOME MAPPING *)

\* get_biome with > for >= on the y midline
get_biome_strict(x, y) ==
    IF x < 50 /\ y > 50 THEN "CRYO"
    ELSE IF x >= 50 /\ y > 50 THEN "VOLCANIC"
    ELSE IF x < 50 /\ y < 50 THEN "BIOLUMINESCENT"
    ELSE "FOSSILIZED"

get_biome(x, y) ==
    IF x < 50 /\ y >= 50 THEN "CRYO"
    ELSE IF x >= 50 /\ y >= 50 THEN "VOLCANIC"
    ELSE IF x < 50 /\ y < 50 THEN "BIOLUMINESCENT"
    ELSE "FOSSILIZED"

\* the catalog with the biome labels of the two northern quadrants exchanged
STAR_CATALOG_DATA_swapped == <<
    [primary_star |-> "blue_giant", nebula_type |-> "ice_blue", stellar_color |-> "blue_white", quadrant |-> "NW", biome |-> "VOLCANIC"],
    [primary_star |-> "blue_giant", nebula_type |-> "crystalline", stellar_color |-> "blue_white", quadrant |-> "NW", biome |-> "VOLCANIC"],
    [primary_star |-> "blue_supergiant", nebula_type |-> "ice_blue", stellar_color |-> "cyan", quadrant |-> "NW", biome |-> "VOLCANIC"],
    [primary_star |-> "red_dwarf", nebula_type |-> "orange_red", stellar_color |-> "red_orange", quadrant |-> "NE", biome |-> "CRYO"],
    [primary_star |-> "red_dwarf_binary", nebula_type |-> "fire", stellar_color |-> "red_orange", quadrant |-> "NE", biome |-> "CRYO"],
    [primary_star |-> "red_giant", nebula_type |-> "orange_red", stellar_color |-> "deep_red", quadrant |-> "NE", biome |-> "CRYO"],
    [primary_star |-> "green_pulsar", nebula_type |-> "purple_magenta", stellar_color |-> "green_purple", quadrant |-> "SW", biome |-> "BIOLUMINESCENT"],
    [primary_star |-> "pulsar", nebula_type |-> "purple", stellar_color |-> "green", quadrant |-> "SW", biome |-> "BIOLUMINESCENT"],
    [primary_star |-> "magnetar", nebula_type |-> "bioluminescent", stellar_color |-> "cyan_purple", quadrant |-> "SW", biome |-> "BIOLUMINESCENT"],
    [primary_star |-> "yellow_sun", nebula_type |-> "golden", stellar_color |-> "yellow_gold", quadrant |-> "SE", biome |-> "FOSSILIZED"],
    [primary_star |-> "yellow_dwarf", nebula_type |-> "amber", stellar_color |-> "warm_yellow", quadrant |-> "SE", biome |-> "FOSSILIZED"],
    [primary_star |-> "orange_sun", nebula_type |-> "golden_brown", stellar_color |-> "amber", quadrant |-> "SE", biome |-> "FOSSILIZED"]
>>

\* setup_star_catalog.py
STAR_CATALOG_DATA == <<
    [primary_star |-> "blue_giant", nebula_type |-> "ice_blue", stellar_color |-> "blue_white", quadrant |-> "NW", biome |-> "CRYO"],
    [primary_star |-> "blue_giant", nebula_type |-> "crystalline", stellar_color |-> "blue_white", quadrant |-> "NW", biome |-> "CRYO"],
    [primary_star |-> "blue_supergiant", nebula_type |-> "ice_blue", stellar_color |-> "cyan", quadrant |-> "NW", biome |-> "CRYO"],
    [primary_star |-> "red_dwarf", nebula_type |-> "orange_red", stellar_color |-> "red_orange", quadrant |-> "NE", biome |-> "VOLCANIC"],
    [primary_star |-> "red_dwarf_binary", nebula_type |-> "fire", stellar_color |-> "red_orange", quadrant |-> "NE", biome |-> "VOLCANIC"],
    [primary_star |-> "red_giant", nebula_type |-> "orange_red", stellar_color |-> "deep_red", quadrant |-> "NE", biome |-> "VOLCANIC"],
    [primary_star |-> "green_pulsar", nebula_type |-> "purple_magenta", stellar_color |-> "green_purple", quadrant |-> "SW", biome |-> "BIOLUMINESCENT"],
    [primary_star |-> "pulsar", nebula_type |-> "purple", stellar_color |-> "green", quadrant |-> "SW", biome |-> "BIOLUMINESCENT"],
    [primary_star |-> "magnetar", nebula_type |-> "bioluminescent", stellar_color |-> "cyan_purple", quadrant |-> "SW", biome |-> "BIOLUMINESCENT"],
    [primary_star |-> "yellow_sun", nebula_type |-> "golden", stellar_color |-> "yellow_gold", quadrant |-> "SE", biome |-> "FOSSILIZED"],
    [primary_star |-> "yellow_dwarf", nebula_type |-> "amber", stellar_color |-> "warm_yellow", quadrant |-> "SE", biome |-> "FOSSILIZED"],
    [primary_star |-> "orange_sun", nebula_type |-> "golden_brown", stellar_color |-> "amber", quadrant |-> "SE", biome |-> "FOSSILIZED"]
>>

\* config["biome_generated"] = get_biome(X, Y)
ComputeBiome ==
    /\ biome = None
    /\ biome' = Some(get_biome(bx, by))
    /\ UNCHANGED <<bx, by, lifecycleVars>>

----------------------------------------------------------------------------
(* Initial states *)

\* the events the events route has created: E1 is open, with room for one
\* or for two participants; E2 has ended; there is no E3
InitEvents ==
    {[E1 |-> [active |-> TRUE, participant_count |-> 0, max_participants |-> m],
      E2 |-> [active |-> FALSE, participant_count |-> 0, max_participants |-> 2]]
        : m \in {1, 2}}

NoParticipants == [p \in {} |-> None]

InitLifecycle ==
    /\ events \in InitEvents
    /\ participants = NoParticipants
    /\ storage = {}
    /\ clock = 0
    /\ calls = [c \in Calls |-> IdleCall]

InitBiomeIdle == bx = 0 /\ by = 0 /\ biome = None

\* before the first request
InitFresh == InitLifecycle /\ InitBiomeIdle

\* the state Init("E1", "alice") leaves behind, and the state the
\* avatar upload of that participant leaves behind
Alice == NewParticipant("p1", [event_code |-> "E1", username |-> "alice",
                               project_id |-> None], 10, 90, 0)

AliceWithAvatar ==
    merge_update(Alice,
        [portrait_url |-> Some(get_avatar_url(AvatarPath("E1", "p1", "portrait.png"))),
         icon_url |-> Some(get_avatar_url(AvatarPath("E1", "p1", "icon.png")))])

AvatarObjects == {AvatarPath("E1", "p1", "portrait.png"),
                  AvatarPath("E1", "p1", "icon.png")}

\* the service with its first participant
InitWith(participant, objects) ==
    /\ events = [E1 |-> [active |-> TRUE, participant_count |-> 1, max_participants |-> 2],
                 E2 |-> [active |-> FALSE, participant_count |-> 0, max_participants |-> 2]]
    /\ participants = ("p1" :> participant)
    /\ storage = objects
    /\ clock = 1
    /\ calls = [c \in Calls |-> IdleCall]
    /\ InitBiomeIdle

InitLife == InitWith(Alice, {}) \/ InitWith(AliceWithAvatar, AvatarObjects)

\* every handler, from the state in which the first participant has an
\* avatar and may register
Init == InitWith(AliceWithAvatar, AvatarObjects)

Next ==
    \E c \in Calls :
        \/ StartInit(c)
        \/ init_participant(c)
        \/ StartFetch(c)
        \/ get_participant_info(c)
        \/ StartAvatar(c)
        \/ upload_avatar(c)
        \/ StartRegister(c)
        \/ register_participant(c)
        \/ StartEvidence(c)
        \/ upload_evidence(c)
        \/ StartLocation(c)
        \/ confirm_location(c)
        \/ StartOverride(c)
        \/ update_participant_details(c)

Spec == Init /\ [][Next]_vars

\* init_participant and get_participant_info alone
NextInit ==
    \E c \in Calls :
        \/ StartInit(c)
        \/ init_participant(c)
        \/ StartFetch(c)
        \/ get_participant_info(c)

SpecInit == InitFresh /\ [][NextInit]_vars

\* the handlers that work on a participant that exists
NextLife ==
    \E c \in Calls :
        \/ StartFetch(c)
        \/ get_participant_info(c)
        \/ StartAvatar(c)
        \/ upload_avatar(c)
        \/ StartRegister(c)
        \/ register_participant(c)
        \/ StartEvidence(c)
        \/ upload_evidence(c)
        \/ StartLocation(c)
        \/ confirm_location(c)
        \/ StartOverride(c)
        \/ update_participant_details(c)

SpecLife == InitLife /\ [][NextLife]_vars

InitBiome ==
    /\ InitLifecycle
    /\ bx \in 0..BiomeCoordMax
    /\ by \in 0..BiomeCoordMax
    /\ biome = None

NextBiome == ComputeBiome

SpecBiome == InitBiome /\ [][NextBiome]_vars

----------------------------------------------------------------------------
(* Scheduling: collaborator calls that do not answer *)

\* request c is suspended in an await
Awaiting(c) == calls[c].pc \notin {"idle", "done", "stalled"}

\* the collaborator call request c awaits gets no answer
Stall(c) ==
    /\ Awaiting(c)
    /\ Goto(c, "stalled", None)
    /\ UNCHANGED <<events, participants, storage, clock, biomeVars>>

\* an await with no timeout: the request stays suspended
Expire_never(c) ==
    /\ calls[c].pc = "stalled"
    /\ UNCHANGED vars

\* the timeout of the unanswered call expires: the call raises, before it
\* has had an effect, and the request ends with the failure
Expire(c) ==
    /\ calls[c].pc = "stalled"
    /\ Respond(c, 500, "Upstream timeout")
    /\ UNCHANGED <<events, participants, storage, clock, biomeVars>>

\* the steps of the handler that runs request c
Handler(c) ==
    \/ init_participant(c)
    \/ get_participant_info(c)
    \/ upload_avatar(c)
    \/ register_participant(c)
    \/ upload_evidence(c)
    \/ confirm_location(c)
    \/ update_participant_details(c)

NextFair ==
    \/ Next
    \/ \E c \in Calls : Stall(c) \/ Expire(c)

\* the event loop resumes every coroutine whose awaited call has answered,
\* and every timeout that is armed expires
SpecFair ==
    /\ Init
    /\ [][NextFair]_vars
    /\ \A c \in Calls : WF_vars(Handler(c)) /\ WF_vars(Expire(c))

----------------------------------------------------------------------------
(* Properties *)

\* request c takes a step
Steps(c) == calls'[c] # calls[c]

InitCallsFor(e, u) ==
    {c \in Calls : /\ calls[c].op = "init"
                   /\ calls[c].data.event_code = e
                   /\ calls[c].data.username = u}

UsernameTaken(c) == calls[c].status = 409 /\ calls[c].body = "Username already taken"
EventFullAnswer(c) == calls[c].status = 409 /\ calls[c].body = "Event is full"

HasSpareCapacity(e) ==
    /\ e \in DOMAIN events
    /\ events[e].active
    /\ events[e].participant_count < events[e].max_participants

\* C1: when all the Init calls for one (event_code, username) have returned,
\* each of them having passed the event gates of an active event that still
\* has spare capacity, exactly one of them returned success with a
\* participant id and every other one returned the username-taken 409.
C1_ExactlyOneInitSucceeds ==
    \A e \in EventCodes, u \in Usernames :
        LET same == InitCallsFor(e, u)
        IN  (/\ same # {}
             /\ HasSpareCapacity(e)
             /\ \A c \in same : calls[c].pc = "done" /\ (calls[c].status = 200 \/ UsernameTaken(c)))
            => /\ Cardinality({c \in same : calls[c].status = 200}) = 1
               /\ \A c \in same : calls[c].status # 200 => UsernameTaken(c)

\* C2: no two distinct participant documents share (event_code, username).
C2_UsernameUniquePerEvent ==
    \A p, q \in DOMAIN participants :
        p # q => \/ participants[p].event_code # participants[q].event_code
                 \/ participants[p].username # participants[q].username

\* an Init came to its create step after a concurrent Init for the same
\* (event_code, username) had created its participant: its own document
\* is not in the store
C2_Witness ==
    /\ \E c \in Calls :
          /\ calls[c].op = "init" /\ calls[c].pc = "done" /\ calls[c].status = 200
          /\ \A p \in DOMAIN participants :
                InitResponse(participants[p]) # calls[c].body
          /\ check_username_exists(calls[c].body.event_code, calls[c].body.username)

\* C3: participant_count never exceeds max_participants, for every event.
C3_CapacityNeverExceeded ==
    \A e \in DOMAIN events :
        events[e].participant_count <= events[e].max_participants

\* C4: when Init reads an existing, active event whose participant_count is
\* at least max_participants, it answers 409 "Event is full", whatever the
\* username, and the request ends there: no participant is created, no
\* count is changed.
C4_FullEventRejects ==
    [][\A c \in Calls :
         (/\ At(c, "init", "get_event")
          /\ Steps(c)
          /\ calls[c].data.event_code \in DOMAIN events
          /\ events[calls[c].data.event_code].active
          /\ events[calls[c].data.event_code].participant_count
                >= events[calls[c].data.event_code].max_participants)
         => /\ calls'[c].pc = "done"
            /\ calls'[c].status = 409
            /\ calls'[c].body = "Event is full"
            /\ participants' = participants
            /\ events' = events]_vars

\* an Init for a username that no participant of the full event holds was
\* answered "Event is full"
C4_Witness ==
    \E c \in Calls :
        /\ calls[c].op = "init" /\ calls[c].pc = "done" /\ EventFullAnswer(c)
        /\ ~check_username_exists(calls[c].data.event_code, calls[c].data.username)
        /\ events[calls[c].data.event_code].participant_count
              = events[calls[c].data.event_code].max_participants

\* C5: when Register reads an existing participant whose portrait_url or
\* icon_url is unset, it answers 400 "Avatar must be uploaded before
\* registration", whatever the request and the other fields hold, and the
\* request ends there without a write.
C5_RegisterNeedsAvatar ==
    [][\A c \in Calls :
         (/\ At(c, "register", "get")
          /\ Steps(c)
          /\ calls[c].data.participant_id \in DOMAIN participants
          /\ \/ participants[calls[c].data.participant_id].portrait_url = None
             \/ participants[calls[c].data.participant_id].icon_url = None)
         => /\ calls'[c].pc = "done"
            /\ calls'[c].status = 400
            /\ calls'[c].body = "Avatar must be uploaded before registration"
            /\ participants' = participants]_vars

\* a Register that supplied a suit colour and an appearance was refused for
\* a participant whose location is confirmed and who has no avatar
C5_Witness ==
    \E c \in Calls :
        /\ calls[c].op = "register" /\ calls[c].pc = "done" /\ calls[c].status = 400
        /\ calls[c].data.suit_color = Some("red")
        /\ participants[calls[c].data.participant_id].location_confirmed = Some(TRUE)
        /\ participants[calls[c].data.participant_id].portrait_url = None

\* a Register request for p has had its update applied
RegisterCompleted(p) ==
    \E c \in Calls :
        /\ calls[c].op = "register"
        /\ calls[c].data.participant_id = p
        /\ calls[c].pc \in {"get_updated", "done"}
        /\ calls[c].status \in {0, 200}

\* C6: registered_at is set exactly for the participants a Register request
\* has registered (its update has been applied), and a participant with
\* registered_at set has both portrait_url and icon_url set.
C6_RegisteredIffRegisterCompleted ==
    \A p \in DOMAIN participants :
        /\ participants[p].registered_at # None <=> RegisterCompleted(p)
        /\ participants[p].registered_at # None
              => participants[p].portrait_url # None /\ participants[p].icon_url # None

\* a participant is registered while an avatar upload, a location
\* confirmation or an override of the same participant has also been applied
C6_Witness ==
    \E p \in DOMAIN participants :
        /\ participants[p].registered_at # None
        /\ \E c \in Calls :
              /\ calls[c].op \in {"avatar", "location", "override", "evidence"}
              /\ calls[c].data.participant_id = p
              /\ calls[c].pc = "done" /\ calls[c].status = 200

\* C7: the write of Override sets exactly the fields the payload supplies
\* (the non-null ones) to the supplied values and leaves every other field
\* of every document as it was; the other steps of Override write nothing.
C7_OverrideWritesExactlySupplied ==
    [][\A c \in Calls :
         (calls[c].op = "override" /\ Steps(c))
         => IF calls[c].pc = "update"
            THEN \A p \in DOMAIN participants, k \in ParticipantFields :
                    participants'[p][k] =
                        IF /\ p = calls[c].data.participant_id
                           /\ k \in UpdateFields
                           /\ calls[c].data.updates[k] # None
                        THEN calls[c].data.updates[k]
                        ELSE participants[p][k]
            ELSE participants' = participants]_vars

OnlyLevel2 == ParticipantUpdate([level_2_complete |-> Some(TRUE)])

\* an Override with only level_2_complete = true has returned, for a
\* participant whose location was confirmed before
C7_Witness ==
    \E c \in Calls :
        /\ calls[c].op = "override" /\ calls[c].pc = "done" /\ calls[c].status = 200
        /\ calls[c].data.updates = OnlyLevel2
        /\ participants[calls[c].data.participant_id].level_2_complete = Some(TRUE)
        /\ participants[calls[c].data.participant_id].location_confirmed = Some(TRUE)

\* C8: an Override of an existing participant whose payload has every field
\* null returns at its first step, with the stored document as the body,
\* and writes nothing.
C8_EmptyOverrideIsNoWrite ==
    [][\A c \in Calls :
         (/\ At(c, "override", "get")
          /\ Steps(c)
          /\ calls[c].data.participant_id \in DOMAIN participants
          /\ \A k \in UpdateFields : calls[c].data.updates[k] = None)
         => /\ calls'[c].pc = "done"
            /\ calls'[c].status = 200
            /\ calls'[c].body = ParticipantResponse(participants[calls[c].data.participant_id])
            /\ participants' = participants]_vars

\* an empty Override has returned the document of a participant who has an
\* avatar
C8_Witness ==
    \E c \in Calls :
        /\ calls[c].op = "override" /\ calls[c].pc = "done" /\ calls[c].status = 200
        /\ \A k \in UpdateFields : calls[c].data.updates[k] = None
        /\ calls[c].body.portrait_url # None

Categories == {"CRYO", "VOLCANIC", "BIOLUMINESCENT", "FOSSILIZED"}

\* the reference partition by the midpoint 50
ReferenceBiome(x, y) ==
    CASE x < 50 /\ y >= 50 -> "CRYO"
      [] x >= 50 /\ y >= 50 -> "VOLCANIC"
      [] x < 50 /\ y < 50 -> "BIOLUMINESCENT"
      [] x >= 50 /\ y < 50 -> "FOSSILIZED"

\* C9: the label get_biome returned for (bx, by) is one of the four
\* categories and is the one of the reference partition by the midpoint 50,
\* and the four quadrant representatives get four distinct labels.
C9_BiomePartition ==
    /\ biome # None =>
          /\ biome[1] \in Categories
          /\ biome[1] = ReferenceBiome(bx, by)
          /\ Cardinality({k \in Categories : biome[1] = k}) = 1
    /\ Cardinality({get_biome(10, 90), get_biome(90, 90),
                    get_biome(10, 10), get_biome(90, 10)}) = 4

\* the label of the point on both midlines
C9_Witness == bx = 50 /\ by = 50 /\ biome = Some("VOLCANIC")

Rows == {STAR_CATALOG_DATA[i] : i \in 1..Len(STAR_CATALOG_DATA)}

\* the biome labels the catalog pairs with a quadrant label
CatalogBiomes(quadrant) == {r.biome : r \in {row \in Rows : row.quadrant = quadrant}}

CompassQuadrant(x, y) ==
    CASE x < 50 /\ y >= 50 -> "NW"
      [] x >= 50 /\ y >= 50 -> "NE"
      [] x < 50 /\ y < 50 -> "SW"
      [] x >= 50 /\ y < 50 -> "SE"

\* the labels get_biome returns over the coordinate domain
BiomeLabels == {get_biome(x, y) : x \in 0..BiomeCoordMax, y \in 0..BiomeCoordMax}

\* C10: get_biome returns exactly the biome labels of the catalog, each of
\* the catalog's quadrant labels NW, NE, SW, SE comes with exactly one biome
\* label, and the label returned for (bx, by) is the catalog's biome of the
\* compass quadrant of (bx, by).
C10_LabelCompatibleWithCatalog ==
    /\ BiomeLabels = {r.biome : r \in Rows}
    /\ {r.quadrant : r \in Rows} = {"NW", "NE", "SW", "SE"}
    /\ \A q \in {"NW", "NE", "SW", "SE"} : Cardinality(CatalogBiomes(q)) = 1
    /\ biome # None => CatalogBiomes(CompassQuadrant(bx, by)) = {biome[1]}

\* the label of the last point west of the midline, on the north side
C10_Witness == bx = 49 /\ by = 50 /\ biome = Some("CRYO")

\* the response of request c after the step
Answers(c, status, body) ==
    calls'[c].pc = "done" /\ calls'[c].status = status /\ calls'[c].body = body

\* C11: participant ids are never reused: the step of Init that stores a
\* document stores it under an id that no stored participant has.
C11_InitIdIsFresh ==
    [][\A c \in Calls :
         (At(c, "init", "create") /\ Steps(c) /\ participants' # participants)
         => calls[c].loc.participant_id[1] \notin DOMAIN participants]_vars

C13_FailedInitWritesNothing ==
    [][\A c \in Calls :
         (/\ calls[c].op = "init"
          /\ Steps(c)
          /\ calls[c].pc # "create" \/ calls'[c].status \notin {0, 200})
         => participants' = participants /\ events' = events]_vars

\* an Init was refused for a taken username on an event that had room, and
\* the event still counts one participant
C13_Witness ==
    \E c \in Calls :
        /\ calls[c].op = "init" /\ calls[c].pc = "done" /\ UsernameTaken(c)
        /\ events[calls[c].data.event_code].participant_count = 1
        /\ events[calls[c].data.event_code].max_participants = 2
        /\ Cardinality(DOMAIN participants) = 1

\* the request c is finished with this status
Done(c, op, status) ==
    calls[c].op = op /\ calls[c].pc = "done" /\ calls[c].status = status

\* the object paths a request for this participant uploads to
ObjectsOf(event_code, id) ==
    {AvatarPath(event_code, id, n) : n \in {"portrait.png", "icon.png"}}
    \cup {EvidencePath(event_code, id, evidence_files[i][1], ext) :
             i \in 1..Len(evidence_files), ext \in {"mp4", "png", "jpg"}}

\* C14: a storage failure in UploadAvatar or UploadEvidence leaves the
\* participant records as they were: the two handlers write the record in
\* their last step only, which no upload follows and which answers 200, so
\* a request answered with the storage failure has written nothing.
C14_StorageFailureWritesNothing ==
    [][\A c \in Calls :
         (calls[c].op \in {"avatar", "evidence"} /\ Steps(c))
         => /\ calls[c].pc # "update" => participants' = participants
            /\ calls'[c].status = 500 => participants' = participants
            /\ calls[c].pc = "update" => /\ calls'[c].status = 200
                                         /\ storage' = storage]_vars

\* an UploadEvidence failed at a later file: an evidence object of the
\* participant is stored, and the record has its avatar URLs and no
\* evidence URLs
C14_Witness ==
    \E c \in Calls :
        /\ Done(c, "evidence", 500)
        /\ LET id == calls[c].data.participant_id
           IN  /\ id \in DOMAIN participants
               /\ EvidencePath(participants[id].event_code[1], id, "soil_sample", "png")
                     \in storage
               /\ participants[id].evidence_urls = None
               /\ participants[id].portrait_url # None
               /\ participants[id].icon_url # None

\* the five operations on a participant besides Fetch
ParticipantOps == {"avatar", "register", "evidence", "location", "override"}

\* C15: each operation on a participant id that is not in the store answers
\* 404 in its first step, with no upload and no write.
C15_UnknownParticipantIs404 ==
    [][\A c \in Calls :
         (/\ calls[c].op \in ParticipantOps \cup {"fetch"}
          /\ calls[c].pc = "get"
          /\ Steps(c)
          /\ calls[c].data.participant_id \notin DOMAIN participants)
         => /\ Answers(c, 404, "Participant not found")
            /\ participants' = participants
            /\ storage' = storage]_vars

\* a ConfirmLocation and an UploadAvatar for an unknown id were both
\* answered 404 and nothing of that id is stored
C15_Witness ==
    \E c, d \in Calls :
        /\ Done(c, "location", 404) /\ Done(d, "avatar", 404)
        /\ calls[c].data.participant_id \notin DOMAIN participants
        /\ calls[d].data.participant_id \notin DOMAIN participants
        /\ \A e \in EventCodes :
              ObjectsOf(e, calls[d].data.participant_id) \cap storage = {}

\* C16: UploadAvatar on a stored participant with a portrait or an icon
\* whose type is neither image/png nor image/jpeg answers 400 in its first
\* step, before any upload and without a write; on an unknown participant it
\* answers 404 whatever the types; no upload of the request happens before
\* that step.
C16_InvalidAvatarTypeIs400 ==
    [][\A c \in Calls :
         (calls[c].op = "avatar" /\ Steps(c))
         => LET id == calls[c].data.participant_id
                invalid == \/ calls[c].data.portrait \notin {PNG, JPEG}
                           \/ calls[c].data.icon \notin {PNG, JPEG}
            IN  /\ (calls[c].pc = "get" /\ invalid /\ id \in DOMAIN participants)
                   => /\ calls'[c].pc = "done"
                      /\ calls'[c].status = 400
                      /\ storage' = storage
                      /\ participants' = participants
                /\ (calls[c].pc = "get" /\ id \notin DOMAIN participants)
                   => Answers(c, 404, "Participant not found")
                /\ storage' # storage => calls[c].pc # "get" /\ ~invalid]_vars

\* an UploadAvatar with a valid portrait and an invalid icon was answered
\* 400, and an UploadAvatar with an invalid type for an unknown id 404;
\* nothing is stored
C16_Witness ==
    \E c, d \in Calls :
        /\ Done(c, "avatar", 400)
        /\ calls[c].data.portrait = PNG /\ calls[c].data.icon = GIF
        /\ calls[c].body = "Invalid icon file type. Must be PNG or JPEG."
        /\ Done(d, "avatar", 404)
        /\ calls[d].data.portrait = GIF
        /\ storage = {}
        /\ \A p \in DOMAIN participants : participants[p].portrait_url = None

\* the operations that no lifecycle stage gates
UngatedOps == {"evidence", "location", "override"}

\* C17: UploadEvidence, ConfirmLocation and Override on a stored
\* participant are never refused, whatever its portrait_url, icon_url and
\* registered_at: the only failure of a request is the storage's own at an
\* upload; and no step of the three changes portrait_url, icon_url or
\* registered_at of any participant.
C17_UngatedOperations ==
    [][\A c \in Calls :
         (calls[c].op \in UngatedOps /\ Steps(c))
         => /\ calls[c].data.participant_id \in DOMAIN participants
               => \/ calls'[c].status \in {0, 200}
                  \/ /\ calls[c].op = "evidence" /\ calls[c].pc = "upload"
                     /\ calls'[c].status = 500
            /\ \A p \in DOMAIN participants :
                  /\ p \in DOMAIN participants'
                  /\ participants'[p].portrait_url = participants[p].portrait_url
                  /\ participants'[p].icon_url = participants[p].icon_url
                  /\ participants'[p].registered_at = participants[p].registered_at]_vars

\* before any avatar upload an UploadEvidence and a ConfirmLocation of the
\* participant both succeeded
C17_Witness ==
    \E c, d \in Calls :
        /\ Done(c, "evidence", 200) /\ Done(d, "location", 200)
        /\ calls[c].data.participant_id = calls[d].data.participant_id
        /\ LET p == participants[calls[c].data.participant_id]
           IN  /\ p.portrait_url = None /\ p.icon_url = None
               /\ p.registered_at = None
               /\ p.evidence_urls # None
               /\ p.location_confirmed = Some(TRUE)

\* C18: registered_at is set once: a step never changes a registered_at
\* that is set.
C18_RegisteredAtSetOnce ==
    [][\A p \in DOMAIN participants :
         participants[p].registered_at # None
         => /\ p \in DOMAIN participants'
            /\ participants'[p].registered_at = participants[p].registered_at]_vars

\* the step is the write of a ConfirmLocation for participant p
ConfirmsLocation(c, p) ==
    /\ At(c, "location", "update")
    /\ Steps(c)
    /\ calls[c].data.participant_id = p

\* C19: x and y of a participant change only in the write of a
\* ConfirmLocation, only while location_confirmed is not yet true, and
\* that write makes it true; location_confirmed changes only in such a
\* write and, once true, stays true.
C19_LocationOverwrittenOnce ==
    [][\A p \in DOMAIN participants :
         /\ p \in DOMAIN participants'
         /\ (\/ participants'[p].x # participants[p].x
             \/ participants'[p].y # participants[p].y)
            => /\ \E c \in Calls : ConfirmsLocation(c, p)
               /\ participants[p].location_confirmed # Some(TRUE)
               /\ participants'[p].location_confirmed = Some(TRUE)
         /\ participants'[p].location_confirmed # participants[p].location_confirmed
            => \E c \in Calls : ConfirmsLocation(c, p)
         /\ participants[p].location_confirmed = Some(TRUE)
            => participants'[p].location_confirmed = Some(TRUE)]_vars

\* C20: the coordinates of every stored participant are within the map.
C20_CoordinatesWithinMap ==
    \A p \in DOMAIN participants :
        /\ participants[p].x[1] \in 0..MAP_WIDTH
        /\ participants[p].y[1] \in 0..MAP_HEIGHT

\* the step answers the Init of request c with 200
InitSucceeds(c) ==
    At(c, "init", "create") /\ Steps(c) /\ calls'[c].status = 200

\* C21: when an Init answers 200, the id, username, event code and starting
\* coordinates of the answer are those of the record stored under that id,
\* and the coordinates are at least StartMargin away from every map edge.
C21_InitResponseMatchesRecord ==
    [][\A c \in Calls :
         InitSucceeds(c)
         => LET r == calls'[c].body
            IN  /\ r.participant_id \in DOMAIN participants'
                /\ InitResponse(participants'[r.participant_id]) = r
                /\ StartMargin <= r.starting_x
                /\ r.starting_x <= MAP_WIDTH - StartMargin
                /\ StartMargin <= r.starting_y
                /\ r.starting_y <= MAP_HEIGHT - StartMargin]_vars

\* the step stores the document of the Init of request c
InitStores(c) ==
    At(c, "init", "create") /\ Steps(c) /\ participants' # participants

\* C22: the record an Init stores has location_confirmed false, active
\* true, and portrait_url, icon_url, suit_color, appearance, registered_at
\* null, so the avatar gate of Register refuses it.
C22_NewRecordIsUnregistered ==
    [][\A c \in Calls :
         InitStores(c)
         => LET id == calls[c].loc.participant_id[1]
                p == participants'[id]
            IN  /\ id \in DOMAIN participants'
                /\ p.location_confirmed = Some(FALSE)
                /\ p.active = Some(TRUE)
                /\ \A f \in {"portrait_url", "icon_url", "suit_color",
                              "appearance", "registered_at"} : p[f] = None
                /\ AvatarMissing(p)]_vars

\* an Init created a participant and a Register of that participant was
\* then refused for the missing avatar
C22_Witness ==
    \E c, d \in Calls :
        /\ Done(c, "init", 200)
        /\ Done(d, "register", 400)
        /\ calls[d].data.participant_id = calls[c].body.participant_id
        /\ calls[c].body.participant_id \in DOMAIN participants
        /\ participants[calls[c].body.participant_id].registered_at = None

\* the fields a Register may write
RegisterFields == {"registered_at", "active", "suit_color", "appearance"}

\* the step is the write of the Register of request c
RegisterWrites(c) == At(c, "register", "update") /\ Steps(c)

\* C23: the write of a Register sets registered_at and active = true,
\* replaces suit_color and appearance by the supplied value when one is
\* supplied and not empty, keeps the stored value otherwise, and leaves
\* every other field of the record and every other record unchanged.
C23_RegisterFrame ==
    [][\A c \in Calls :
         RegisterWrites(c)
         => LET id == calls[c].data.participant_id
                old == participants[id]
                new == participants'[id]
            IN  /\ id \in DOMAIN participants
                /\ DOMAIN participants' = DOMAIN participants
                /\ new.registered_at # None
                /\ new.active = Some(TRUE)
                /\ \A f \in {"suit_color", "appearance"} :
                      /\ calls[c].data[f] = None => new[f] = old[f]
                      /\ new[f] # old[f] => new[f] = calls[c].data[f]
                      /\ Truthy(calls[c].data[f]) => new[f] = calls[c].data[f]
                /\ \A f \in DOMAIN old \ RegisterFields : new[f] = old[f]
                /\ \A q \in DOMAIN participants \ {id} :
                      participants'[q] = participants[q]]_vars

\* a Register with colour and appearance was followed by a Register
\* without them, and the record keeps the colour and appearance of the
\* first under the registration time of the second
C23_Witness ==
    \E c, d \in Calls :
        /\ Done(c, "register", 200) /\ Done(d, "register", 200)
        /\ calls[c].data.participant_id = calls[d].data.participant_id
        /\ calls[c].data.suit_color = Some("red")
        /\ calls[d].data.suit_color # Some("red")
        /\ calls[d].data.appearance = None
        /\ LET p == participants[calls[c].data.participant_id]
           IN  /\ p.suit_color = Some("red")
               /\ p.appearance = Some("tall")
               /\ p.registered_at = calls[d].body.registered_at
               /\ p.registered_at # calls[c].body.registered_at

\* the fields that identify a participant
IdentityFields == {"participant_id", "username", "event_code"}

\* C24: no step of UploadAvatar, Register, UploadEvidence, ConfirmLocation
\* or Override changes the participant_id, username or event_code of a
\* stored participant, or removes the participant.
C24_IdentityImmutable ==
    [][\A p \in DOMAIN participants :
         /\ p \in DOMAIN participants'
         /\ \A f \in IdentityFields : participants'[p][f] = participants[p][f]]_vars

\* an Override and a ConfirmLocation of the participant both wrote, and
\* the participant is still alice of E1 under its id
C24_Witness ==
    \E c, d \in Calls :
        /\ Done(c, "override", 200) /\ Done(d, "location", 200)
        /\ calls[c].data.participant_id = calls[d].data.participant_id
        /\ LET id == calls[c].data.participant_id
           IN  /\ participants[id].level_2_complete = Some(TRUE)
               /\ participants[id].location_confirmed = Some(TRUE)
               /\ participants[id].participant_id = Some(id)
               /\ participants[id].username = Some("alice")
               /\ participants[id].event_code = Some("E1")

\* the extension the precedence video, png, other gives each declared type
ExpectedExt(content_type) ==
    CASE content_type = MP4 -> "mp4"
      [] content_type = VIDEO_PNG -> "mp4"
      [] content_type = PNG -> "png"
      [] content_type = JPEG -> "jpg"
      [] content_type = GIF -> "jpg"

\* the asset name behind each key of evidence_urls, with its position in
\* the request
EvidenceAssets ==
    [soil |-> <<"soil_sample", 1>>, stars |-> <<"star_field", 2>>,
     flora |-> <<"flora_recording", 3>>]

\* the URL of asset k of the evidence request c for a participant of event e
ExpectedEvidenceUrl(c, e, k) ==
    "https://storage/evidence/" \o e \o "/" \o calls[c].data.participant_id \o "/"
        \o EvidenceAssets[k][1] \o "."
        \o ExpectedExt(calls[c].data.files[EvidenceAssets[k][2]])

\* C25: the write of an UploadEvidence stores evidence_urls with exactly
\* the keys soil, stars and flora, each the URL of
\* evidence/{event_code}/{participant_id}/{name}.{ext} of its own asset,
\* where ext is mp4 for a video type (also when png matches), else png for
\* a png type, else jpg; and the object of each URL is in the storage.
C25_EvidenceUrls ==
    [][\A c \in Calls :
         (At(c, "evidence", "update") /\ Steps(c))
         => LET id == calls[c].data.participant_id
                e == participants[id].event_code[1]
                urls == participants'[id].evidence_urls[1]
            IN  /\ id \in DOMAIN participants
                /\ participants'[id].evidence_urls # None
                /\ DOMAIN urls = {"soil", "stars", "flora"}
                /\ \A k \in DOMAIN urls :
                      /\ urls[k] = ExpectedEvidenceUrl(c, e, k)
                      /\ \E path \in storage : urls[k] = get_avatar_url(path)
                /\ calls'[c].status = 200
                /\ calls'[c].body.evidence_urls = urls]_vars

\* an UploadEvidence whose soil sample is declared video/png succeeded and
\* the record points at soil_sample.mp4, star_field.png and
\* flora_recording.mp4
C25_Witness ==
    \E c \in Calls :
        /\ Done(c, "evidence", 200)
        /\ calls[c].data.files = <<VIDEO_PNG, PNG, MP4>>
        /\ calls[c].data.participant_id = "p1"
        /\ participants["p1"].evidence_urls =
              Some([soil |-> "https://storage/evidence/E1/p1/soil_sample.mp4",
                    stars |-> "https://storage/evidence/E1/p1/star_field.png",
                    flora |-> "https://storage/evidence/E1/p1/flora_recording.mp4"])

\* request c repeats the asset upload d, which has succeeded
Repeats(c, d) ==
    /\ c # d
    /\ calls[c].op \in {"avatar", "evidence"}
    /\ Done(d, calls[c].op, 200)
    /\ calls[c].data.participant_id = calls[d].data.participant_id

\* the fields an asset upload writes
AssetFields(op) ==
    IF op = "avatar" THEN {"portrait_url", "icon_url"} ELSE {"evidence_urls"}

\* the URLs the answer of the asset upload d reports, as stored fields
AnsweredUrls(d) ==
    IF calls[d].op = "avatar"
    THEN [portrait_url |-> Some(calls[d].body.portrait_url),
          icon_url |-> Some(calls[d].body.icon_url)]
    ELSE [evidence_urls |-> Some(calls[d].body.evidence_urls)]

\* this step of the repeat c adds no stored object, and when it is the
\* write it leaves the record as the single call d left it
RepeatStepIsIdempotent(c, d) ==
    LET id == calls[c].data.participant_id
    IN  /\ storage' = storage
        /\ calls[c].pc = "update"
           => /\ \A f \in AssetFields(calls[c].op) :
                    participants'[id][f] = AnsweredUrls(d)[f]
              /\ \A f \in ParticipantFields \ AssetFields(calls[c].op) :
                    participants'[id][f] = participants[id][f]

ResponseCodes == {200, 400, 404, 409, 410, 500}

WrittenFields(c) ==
    CASE calls[c].op = "avatar" ->
           [portrait_url |-> Some(calls[c].body.portrait_url),
            icon_url |-> Some(calls[c].body.icon_url)]
      [] calls[c].op = "evidence" ->
           [evidence_urls |-> Some(calls[c].body.evidence_urls)]
      [] calls[c].op = "location" ->
           [x |-> Some(calls[c].data.x), y |-> Some(calls[c].data.y),
            location_confirmed |-> Some(TRUE)]
      [] calls[c].op = "override" ->
           [k \in {f \in UpdateFields : calls[c].data.updates[f] # None} |->
               calls[c].data.updates[k]]
      [] calls[c].op = "register" ->
           [k \in {"registered_at", "active"}
                 \cup {f \in {"suit_color", "appearance"} : Truthy(calls[c].data[f])} |->
               CASE k = "registered_at" -> calls[c].body.registered_at
                 [] k = "active" -> Some(TRUE)
                 [] OTHER -> calls[c].data[k]]

\* no other request of the same operation on the same participant exists
OnlyWriterOfItsFields(c) ==
    \A e \in Calls \ {c} :
        \/ calls[e].op # calls[c].op
        \/ calls[e].data.participant_id # calls[c].data.participant_id

C29_ParticipantNeverLost ==
    \A c \in Calls :
        Done(c, "init", 200)
        => LET r == calls[c].body
           IN  /\ get_participant(r.participant_id) # None
               /\ ParticipantResponse(get_participant(r.participant_id)[1]).username
                     = Some(r.username)
               /\ ParticipantResponse(get_participant(r.participant_id)[1]).event_code
                     = Some(r.event_code)

\* the record under id p is, after the step, still the record of the same
\* participant
SameParticipant(p) ==
    /\ p \in DOMAIN participants'
    /\ participants'[p].username = participants[p].username
    /\ participants'[p].event_code = participants[p].event_code

====
